---- MODULE Spec2Model ----
(***************************************************************************)
(* rbrumby/mfa: a terminal TOTP device.  The model follows package mfa     *)
(* (MFADevice, its functional options, Run) and cmd's main, which builds   *)
(* the device, resolves the secret and runs the refresh loop.              *)
(*                                                                         *)
(* Time is counted in whole Unix seconds.  A time.Time is its Unix second; *)
(* Second() is the second within the minute (time zones are offset from    *)
(* UTC by whole minutes, and Go's clock has no leap seconds).  The clock   *)
(* only moves forward.  A []byte secret is modelled by its string; the nil *)
(* slice and the empty slice are both "".                                  *)
(***************************************************************************)
EXTENDS Integers, Sequences, FiniteSets, TLC

VARIABLES
    pc,        \* position of main / Run: "start", "resolve", "run", "recv", "sink", "panic"
    flags,     \* main's parsed flags and the Writer it hands to Output
    optionList, \* the options a caller hands to NewMFADevice
    applied,   \* how many of them NewMFADevice's loop has applied
    env,       \* value of the MFA_SECRET_FILE environment variable
    file,      \* the secret file at the path main resolves: exists, perm, content
    secFile,   \* main's secFile once opened: name and perm, or NoFile
    d,         \* the MFADevice, or NoDevice before NewMFADevice
    now,       \* wall clock, Unix seconds
    elapsed,   \* seconds passed since Run created its ticker
    nextFire,  \* when the ticker fires next (0 before Run)
    chan,      \* ticker.C, a channel of capacity 1
    t,         \* the tick timestamp Run holds
    tick,      \* how many values Run has received from ticker.C
    sink,      \* every call made on the Writer, in order
    err        \* the panic value, "none" while the process lives

vars == <<pc, flags, optionList, applied, env, file, secFile, d, now, elapsed, nextFire, chan, t, tick, sink, err>>

(***************************************************************************)
(* Bounds of the model.                                                    *)
(***************************************************************************)
\* seconds the clock may advance once the ticker exists
MaxElapsed == 3
\* Init of SpecClock starts the clock at any second below this one
ClockStarts == 60
\* the longest list of options a caller hands to NewMFADevice
MaxOptions == 3

(***************************************************************************)
(* Values.                                                                 *)
(***************************************************************************)
\* a secret that decodes as base32, and one that does not
GoodSecret == "JBSWY3DPEHPK3PXP"
BadSecret == "not base32!"
Base32Secrets == {"", GoodSecret}

NoDevice == [Secret |-> "", Writer |-> "none", UpdateFrequency |-> 0,
             TOTPOptions |-> [Period |-> 0, Digits |-> 0, Algorithm |-> 0]]
NoFile == [name |-> "", perm |-> 0]
NilWriter == "nil"
HomeSecretFile == "$HOME/.mfa/secret"

\* a permission word from its owner, group and other digits
Oct(u, g, o) == 64 * u + 8 * g + o

\* os.FileMode.Perm() values of the secret file
Perms == {Oct(4,0,0), Oct(6,0,0), Oct(7,0,0), Oct(6,4,0), Oct(6,4,4),
          Oct(6,6,0), Oct(6,0,4), Oct(7,4,0), Oct(7,7,7)}

\* otp.Algorithm: AlgorithmSHA1 is the zero value
AlgorithmSHA1 == 0
AlgorithmSHA256 == 1
AlgorithmSHA512 == 2
AlgorithmMD5 == 3

\* algMap[alg]; a missing key yields the zero value of otp.Algorithm
algMap(alg) ==
    CASE alg = "SHA1" -> AlgorithmSHA1
      [] alg = "SHA256" -> AlgorithmSHA256
      [] alg = "SHA512" -> AlgorithmSHA512
      [] alg = "MD5" -> AlgorithmMD5
      [] OTHER -> AlgorithmSHA1

(***************************************************************************)
(* The functional options, each applied to a device dev.                   *)
(***************************************************************************)
Secret(secret, dev) ==
    IF secret # "" THEN [dev EXCEPT !.Secret = secret] ELSE dev

\* Output without its nil test
OutputUnchecked(w, dev) ==
    [dev EXCEPT !.Writer = w]

Output(w, dev) ==
    IF w # NilWriter THEN [dev EXCEPT !.Writer = w] ELSE dev

UpdateFrequency(p, dev) ==
    IF p # 0 THEN [dev EXCEPT !.UpdateFrequency = p] ELSE dev

RefreshPeriod(per, dev) ==
    IF per # 0 THEN [dev EXCEPT !.TOTPOptions.Period = per] ELSE dev

Digits(dig, dev) ==
    [dev EXCEPT !.TOTPOptions.Digits = dig]

Algorithm(alg, dev) ==
    IF alg # "" THEN [dev EXCEPT !.TOTPOptions.Algorithm = algMap(alg)] ELSE dev

\* one option o = <<name, argument>> applied to dev
ApplyOption(o, dev) ==
    CASE o[1] = "Output" -> Output(o[2], dev)
      [] o[1] = "Algorithm" -> Algorithm(o[2], dev)
      [] o[1] = "RefreshPeriod" -> RefreshPeriod(o[2], dev)
      [] o[1] = "Digits" -> Digits(o[2], dev)
      [] o[1] = "UpdateFrequency" -> UpdateFrequency(o[2], dev)
      [] o[1] = "Secret" -> Secret(o[2], dev)

RECURSIVE ApplyOptions(_, _)
ApplyOptions(options, dev) ==
    IF options = <<>> THEN dev
    ELSE ApplyOptions(Tail(options), ApplyOption(Head(options), dev))

\* NewMFADevice(options...): the defaults, then each option in order
NewMFADevice(options) ==
    ApplyOptions(options,
        [Secret |-> "", Writer |-> "defaultTerminal", UpdateFrequency |-> 1,
         TOTPOptions |-> [Period |-> 0, Digits |-> 0, Algorithm |-> AlgorithmSHA1]])

(***************************************************************************)
(* The Writer.                                                             *)
(***************************************************************************)
\* what a call on Writer w may return: Terminal's methods always return nil,
\* another implementation of the interface may return an error
WriterReturns(w) ==
    IF w \in {"terminal", "defaultTerminal"} THEN {"nil"} ELSE {"nil", "error"}

\* PermWarning that prints what the file holds beside its name
PermWarningWithContent(name) == [kind |-> "permwarn", arg |-> <<name, file.content>>]

\* fmt.Sprintf("WARNING - secret file %q is not secure\n", file.Name())
PermWarning(name) == [kind |-> "permwarn", arg |-> <<name>>]

\* Call made twice: a write that is retried
CallTwice(calls, op, text, n, time, at, ret) ==
    LET c == [op |-> op, text |-> text, tick |-> n, t |-> time,
              at |-> at, ret |-> ret, done |-> at]
    IN  Append(Append(calls, c), c)

\* one call on the Writer appended to the calls made so far: method op with
\* argument text, made in tick n whose timestamp is time, at clock reading at;
\* ret is what it returned ("pending" while it runs) and done when it returned
Call(calls, op, text, n, time, at, ret) ==
    Append(calls, [op |-> op, text |-> text, tick |-> n, t |-> time,
                   at |-> at, ret |-> ret, done |-> at])

(***************************************************************************)
(* totp.GenerateCodeCustom(secret, t, opts) of github.com/pquerna/otp, as  *)
(* Run uses it: the period defaults to 30, the counter is                  *)
(* floor(unix / period), the secret must decode as base32.  The HMAC is    *)
(* kept symbolic: the code is the term over everything it is computed from.*)
(***************************************************************************)
\* the period in force: GenerateCodeCustom reads a zero Period as 30
EffectivePeriod(opts) == IF opts.Period = 0 THEN 30 ELSE opts.Period

GenerateCodeCustom(secret, time, opts) ==
    IF secret \notin Base32Secrets
    THEN [err |-> TRUE, code |-> [kind |-> "none", arg |-> <<>>]]
    ELSE [err |-> FALSE,
          code |-> [kind |-> "otp",
                    arg |-> <<secret, time \div EffectivePeriod(opts),
                              opts.Algorithm, opts.Digits>>]]

\* time.Time.Second()
Second(time) == time % 60

\* NearExpiry with the first window opening a second late
NearExpiryLate(time) ==
    Second(time) >= 55 \/ (Second(time) < 30 /\ Second(time) > 25)

\* NearExpiry without the window before the half minute
NearExpiryMinuteOnly(time) ==
    Second(time) >= 55

\* the branch Run takes at its if: TRUE for Warn, FALSE for Write
NearExpiry(time) ==
    Second(time) >= 55 \/ (Second(time) < 30 /\ Second(time) >= 25)

(***************************************************************************)
(* SecretFromFile(file)(dev) with the Writer calls made so far; io says    *)
(* which of Stat and ReadAll fails, ret is what Writer.Warn returns.       *)
(* Yields the device, the calls and the panic value.                       *)
(***************************************************************************)
SecretFromFile(f, content, io, ret, dev, calls, at) ==
    IF f = NoFile THEN [d |-> dev, sink |-> calls, err |-> "none"]
    ELSE IF io = "stat" THEN [d |-> dev, sink |-> calls, err |-> "stat"]
    ELSE LET warned == IF f.perm > Oct(7,0,0)
                       THEN Call(calls, "Warn", PermWarning(f.name), 0, 0, at, ret)
                       ELSE calls
         IN  IF io = "read" THEN [d |-> dev, sink |-> warned, err |-> "read"]
             ELSE [d |-> [dev EXCEPT !.Secret = content], sink |-> warned, err |-> "none"]

(***************************************************************************)
(* main                                                                    *)
(***************************************************************************)
\* device := mfa.NewMFADevice(Output, Algorithm, RefreshPeriod, Digits, UpdateFrequency)
NewDevice ==
    /\ pc = "start"
    /\ d' = NewMFADevice(<< <<"Output", flags.term>>,
                            <<"Algorithm", flags.algorithm>>,
                            <<"RefreshPeriod", flags.period>>,
                            <<"Digits", flags.digits>>,
                            <<"UpdateFrequency", flags.frequency>> >>)
    /\ pc' = "resolve"
    /\ UNCHANGED <<flags, optionList, applied, env, file, secFile, now, elapsed, nextFire, chan, t, tick, sink, err>>

\* the name of the file main opens when -secret is empty
SecretFileName ==
    IF flags.secretFile # "" THEN flags.secretFile
    ELSE IF env # "" THEN env
    ELSE HomeSecretFile

\* the switch of main: -secret, else the secret file
ResolveSecret ==
    /\ pc = "resolve"
    /\ IF flags.secret # ""
       THEN /\ d' = Secret(flags.secret, d)
            /\ pc' = "run"
            /\ UNCHANGED <<secFile, sink, err>>
       ELSE IF ~file.exists
       THEN /\ pc' = "panic"
            /\ err' = "open"
            /\ UNCHANGED <<d, secFile, sink>>
       ELSE \E io \in {"ok", "stat", "read"}, ret \in WriterReturns(d.Writer) :
              LET f == [name |-> SecretFileName, perm |-> file.perm]
                  r == SecretFromFile(f, file.content, io, ret, d, sink, now)
              IN  /\ secFile' = f
                  /\ d' = r.d
                  /\ sink' = r.sink
                  /\ err' = r.err
                  /\ pc' = IF r.err = "none" THEN "run" ELSE "panic"
    /\ UNCHANGED <<flags, optionList, applied, env, file, now, elapsed, nextFire, chan, t, tick>>

(***************************************************************************)
(* MFADevice.Run                                                           *)
(***************************************************************************)
\* ticker := time.NewTicker(d.UpdateFrequency); NewTicker panics unless d > 0
RunStart ==
    /\ pc = "run"
    /\ IF d.UpdateFrequency <= 0
       THEN /\ pc' = "panic"
            /\ err' = "ticker"
            /\ UNCHANGED <<nextFire, chan>>
       ELSE /\ pc' = "recv"
            /\ nextFire' = now + d.UpdateFrequency
            /\ chan' = <<>>
            /\ UNCHANGED err
    /\ elapsed' = 0
    /\ UNCHANGED <<flags, optionList, applied, env, file, secFile, d, now, t, tick, sink>>

\* a second passes; a ticker that is due sends the time on ticker.C, and
\* drops it when the channel's one slot is taken
ClockTick ==
    /\ pc \in {"recv", "sink"}
    /\ elapsed < MaxElapsed
    /\ now' = now + 1
    /\ elapsed' = elapsed + 1
    /\ IF now' = nextFire
       THEN /\ chan' = IF Len(chan) < 1 THEN Append(chan, now') ELSE chan
            /\ nextFire' = nextFire + d.UpdateFrequency
       ELSE UNCHANGED <<chan, nextFire>>
    /\ UNCHANGED <<pc, flags, optionList, applied, env, file, secFile, d, t, tick, sink, err>>

\* Tick that takes the next value while the last call is still running
TickWhileWriting ==
    /\ pc \in {"recv", "sink"}
    /\ chan # <<>>
    /\ t' = Head(chan)
    /\ chan' = Tail(chan)
    /\ tick' = tick + 1
    /\ sink' = Call(sink, IF NearExpiry(t') THEN "Warn" ELSE "Write",
                    GenerateCodeCustom(d.Secret, t', d.TOTPOptions).code,
                    tick', t', now, "pending")
    /\ pc' = "sink"
    /\ UNCHANGED <<flags, optionList, applied, env, file, secFile, d, now, elapsed, nextFire, err>>

\* Tick that stores the period in force back into the device
TickStoresPeriod ==
    /\ pc = "recv"
    /\ chan # <<>>
    /\ t' = Head(chan)
    /\ chan' = Tail(chan)
    /\ tick' = tick + 1
    /\ d' = [d EXCEPT !.TOTPOptions.Period = EffectivePeriod(d.TOTPOptions)]
    /\ LET g == GenerateCodeCustom(d.Secret, t', d'.TOTPOptions)
       IN  IF g.err
           THEN /\ pc' = "panic"
                /\ err' = "generate"
                /\ UNCHANGED sink
           ELSE /\ sink' = Call(sink, IF NearExpiry(t') THEN "Warn" ELSE "Write",
                                g.code, tick', t', now, "pending")
                /\ pc' = "sink"
                /\ UNCHANGED err
    /\ UNCHANGED <<flags, optionList, applied, env, file, secFile, now, elapsed, nextFire>>

\* t := <-ticker.C, the code is generated, and Warn or Write is called
Tick ==
    /\ pc = "recv"
    /\ chan # <<>>
    /\ t' = Head(chan)
    /\ chan' = Tail(chan)
    /\ tick' = tick + 1
    /\ LET g == GenerateCodeCustom(d.Secret, t', d.TOTPOptions)
       IN  IF g.err
           THEN /\ pc' = "panic"
                /\ err' = "generate"
                /\ UNCHANGED sink
           ELSE /\ sink' = Call(sink, IF NearExpiry(t') THEN "Warn" ELSE "Write",
                                g.code, tick', t', now, "pending")
                /\ pc' = "sink"
                /\ UNCHANGED err
    /\ UNCHANGED <<flags, optionList, applied, env, file, secFile, d, now, elapsed, nextFire>>

\* SinkReturn of a Run without its for: Run returns after the first write
SinkReturnOnce ==
    /\ pc = "sink"
    /\ \E ret \in WriterReturns(d.Writer) :
          /\ sink' = [sink EXCEPT ![Len(sink)].ret = ret, ![Len(sink)].done = now]
          /\ IF ret = "error"
             THEN pc' = "panic" /\ err' = "sink"
             ELSE pc' = "returned" /\ UNCHANGED err
    /\ UNCHANGED <<flags, optionList, applied, env, file, secFile, d, now, elapsed, nextFire, chan, t, tick>>

\* the Writer call returns; Run panics on an error and loops otherwise
SinkReturn ==
    /\ pc = "sink"
    /\ \E ret \in WriterReturns(d.Writer) :
          /\ sink' = [sink EXCEPT ![Len(sink)].ret = ret, ![Len(sink)].done = now]
          /\ IF ret = "error"
             THEN pc' = "panic" /\ err' = "sink"
             ELSE pc' = "recv" /\ UNCHANGED err
    /\ UNCHANGED <<flags, optionList, applied, env, file, secFile, d, now, elapsed, nextFire, chan, t, tick>>

(***************************************************************************)
(* Specifications.                                                         *)
(***************************************************************************)
Files ==
    {[exists |-> FALSE, perm |-> 0, content |-> ""]}
    \cup [exists : {TRUE}, perm : Perms, content : {"", GoodSecret}]

\* the state after flag.Parse() of a run given flags fl, environment e,
\* secret file f and clock reading c
Started(fl, e, f, c) ==
    /\ pc = "start"
    /\ flags = fl
    /\ optionList = <<>>
    /\ applied = 0
    /\ env = e
    /\ file = f
    /\ now = c
    /\ secFile = NoFile
    /\ d = NoDevice
    /\ elapsed = 0
    /\ nextFire = 0
    /\ chan = <<>>
    /\ t = 0
    /\ tick = 0
    /\ sink = <<>>
    /\ err = "none"

\* every flag, file and environment, at a clock reading next to a boundary
Init ==
    \E fl \in [secret : {"", GoodSecret, BadSecret},
               secretFile : {"", "cli.secret"},
               frequency : {0, 1, 2},
               period : {0, 20, 30},
               digits : {0, 6},
               algorithm : {"SHA256", "bogus"},
               term : {"terminal", "custom"}],
       e \in {"", "env.secret"},
       f \in Files :
          Started(fl, e, f, 23)

Next ==
    \/ NewDevice
    \/ ResolveSecret
    \/ RunStart
    \/ ClockTick
    \/ Tick
    \/ SinkReturn

Spec == Init /\ [][Next]_vars

\* main's default flags but for the period, the secret and the Writer, at
\* every clock reading of a minute
InitClock ==
    \E fl \in [secret : {"", GoodSecret, BadSecret},
               secretFile : {""},
               frequency : {1, 2},
               period : {0, 20, 30, 60},
               digits : {6},
               algorithm : {"SHA1"},
               term : {"terminal", "custom"}],
       f \in [exists : {TRUE}, perm : {Oct(6,0,0), Oct(7,7,7)}, content : {GoodSecret}],
       c \in 0 .. (ClockStarts - 1) :
          Started(fl, "", f, c)

SpecClock == InitClock /\ [][Next]_vars

\* main's default flags but for the period, the frequency, the secret and
\* the Writer, at a clock reading next to a boundary
InitLive ==
    \E fl \in [secret : {"", GoodSecret, BadSecret},
               secretFile : {""},
               frequency : {1, 2},
               period : {0, 20, 30},
               digits : {6},
               algorithm : {"SHA1"},
               term : {"terminal", "custom"}],
       f \in [exists : {TRUE}, perm : {Oct(6,0,0), Oct(7,7,7)}, content : {GoodSecret}] :
          Started(fl, "", f, 23)

\* the clock keeps running and the ticker keeps firing, the goroutine of Run
\* is scheduled when a value waits on ticker.C, and a call on the Writer
\* returns
SpecLive ==
    /\ InitLive
    /\ [][Next]_vars
    /\ WF_vars(ClockTick)
    /\ WF_vars(Tick)
    /\ WF_vars(SinkReturn)

(***************************************************************************)
(* NewMFADevice called by any client of the package, with any options.     *)
(***************************************************************************)
\* the options and the arguments a caller may give them
OptionArguments ==
    ({"Output"} \X {NilWriter, "terminal", "custom"})
    \cup ({"UpdateFrequency"} \X {0, 1, 2, -1})
    \cup ({"RefreshPeriod"} \X {0, 30})
    \cup ({"Secret"} \X {"", GoodSecret})
    \cup ({"Algorithm"} \X {"", "SHA256", "bogus"})
    \cup ({"Digits"} \X {0, 6})

\* o(device) for the next option of NewMFADevice's loop
ApplyNextOption ==
    /\ pc = "options"
    /\ applied < Len(optionList)
    /\ d' = ApplyOption(optionList[applied + 1], d)
    /\ applied' = applied + 1
    /\ UNCHANGED <<pc, flags, optionList, env, file, secFile, now, elapsed,
                   nextFire, chan, t, tick, sink, err>>

\* return device
ReturnDevice ==
    /\ pc = "options"
    /\ applied = Len(optionList)
    /\ pc' = "constructed"
    /\ UNCHANGED <<flags, optionList, applied, env, file, secFile, d, now, elapsed,
                   nextFire, chan, t, tick, sink, err>>

\* NewMFADevice has built the device with its defaults and is about to loop
\* over the options it was given
InitOptions ==
    /\ pc = "options"
    /\ optionList \in UNION {[1 .. n -> OptionArguments] : n \in 0 .. MaxOptions}
    /\ applied = 0
    /\ d = NewMFADevice(<<>>)
    /\ flags = [secret |-> "", secretFile |-> "", frequency |-> 1, period |-> 30,
                digits |-> 6, algorithm |-> "SHA1", term |-> "terminal"]
    /\ env = ""
    /\ file = [exists |-> FALSE, perm |-> 0, content |-> ""]
    /\ secFile = NoFile
    /\ now = 0
    /\ elapsed = 0
    /\ nextFire = 0
    /\ chan = <<>>
    /\ t = 0
    /\ tick = 0
    /\ sink = <<>>
    /\ err = "none"

NextOptions ==
    \/ ApplyNextOption
    \/ ReturnDevice

SpecOptions == InitOptions /\ [][NextOptions]_vars

(***************************************************************************)
(* Vocabulary of the claims.                                               *)
(***************************************************************************)
\* positions in sink of the calls made by tick n of Run (tick 0: before Run)
CallsOfTick(n) == {i \in 1 .. Len(sink) : sink[i].tick = n}

\* positions in sink of the calls made by Run
LoopCalls == {i \in 1 .. Len(sink) : sink[i].tick >= 1}

\* the tick whose generation failed, if any
FailedTick(n) == err = "generate" /\ n = tick

\* the algorithm names algMap knows
AlgorithmNames == {"SHA1", "SHA256", "SHA512", "MD5"}

\* a configuration the specification calls invalid: no secret, a digit count
\* that is not positive, an unknown algorithm, a zero period or frequency
InvalidConfiguration ==
    \/ d.Secret = ""
    \/ flags.digits <= 0
    \/ flags.algorithm \notin AlgorithmNames
    \/ flags.period = 0
    \/ flags.frequency = 0

\* positions in sink of the file-permission warnings
PermWarnings ==
    {i \in 1 .. Len(sink) : sink[i].op = "Warn" /\ sink[i].text.kind = "permwarn"}

\* the mode grants some access to group or others
GroupOrOtherAccess(perm) == perm % 64 # 0

\* seconds left until the next step boundary of a code of period per
Remaining(time, per) == per - (time % per)

(***************************************************************************)
(* C1: every tick whose code generation succeeds makes exactly one call on *)
(* the Writer, a Write or a Warn, and the next tick is taken only after    *)
(* it: each earlier tick has exactly one call, which has returned nil.     *)
(***************************************************************************)
C1_OneWritePerTick ==
    \A n \in 1 .. tick :
        IF FailedTick(n) THEN CallsOfTick(n) = {}
        ELSE /\ Cardinality(CallsOfTick(n)) = 1
             /\ \A i \in CallsOfTick(n) :
                   /\ sink[i].op \in {"Write", "Warn"}
                   /\ (n < tick => sink[i].ret = "nil")

\* two ticks have made their calls and Run waits for the third
C1_Witness ==
    /\ pc = "recv"
    /\ tick = 2
    /\ Cardinality(LoopCalls) = 2

(***************************************************************************)
(* C2: with period 30, a tick's code goes to Warn if and only if the       *)
(* second of its timestamp is in 25..29 or 55..59, and to Write for every  *)
(* other second, 0..24 and 30..54.                                         *)
(***************************************************************************)
C2_Period30Routing ==
    d.TOTPOptions.Period = 30 =>
        \A i \in LoopCalls :
            /\ sink[i].op = "Warn" <=> Second(sink[i].t) \in (25 .. 29) \cup (55 .. 59)
            /\ sink[i].op = "Write" <=> Second(sink[i].t) \in (0 .. 24) \cup (30 .. 54)

\* a run of period 30 that crossed into the last five seconds of a minute:
\* second 54 was written and second 55 was warned
C2_Witness ==
    /\ d.TOTPOptions.Period = 30
    /\ \E i, j \in LoopCalls :
          /\ Second(sink[i].t) = 54 /\ sink[i].op = "Write"
          /\ Second(sink[j].t) = 55 /\ sink[j].op = "Warn"

C4_InvalidConfigurationNeverRuns ==
    InvalidConfiguration =>
        /\ pc \notin {"recv", "sink"}
        /\ tick = 0
        /\ LoopCalls = {}

(***************************************************************************)
(* C5: once SecretFromFile has read the file's mode, the Writer has been   *)
(* warned about the file exactly once if the mode grants any access to     *)
(* group or others, and not at all if it grants access to the owner only;  *)
(* the warning comes before every call of the loop.                        *)
(***************************************************************************)
C5_WarnsOnGroupOrOtherAccess ==
    (secFile # NoFile /\ err # "stat") =>
        /\ Cardinality(PermWarnings) = IF GroupOrOtherAccess(secFile.perm) THEN 1 ELSE 0
        /\ \A i \in PermWarnings, j \in LoopCalls : i < j

(***************************************************************************)
(* C6: no error returned by a call on the Writer is dropped: whenever a    *)
(* Write or Warn has returned an error, the program has terminated.        *)
(***************************************************************************)
C6_SinkErrorsSurface ==
    \A i \in 1 .. Len(sink) :
        sink[i].ret = "error" => pc = "panic"

(***************************************************************************)
(* C7: when code generation fails in a tick, Writer.Error is called once   *)
(* for that tick, and neither Write nor Warn is.                           *)
(***************************************************************************)
C7_GenerationFailureReported ==
    err = "generate" =>
        /\ Cardinality({i \in CallsOfTick(tick) : sink[i].op = "Error"}) = 1
        /\ \A i \in CallsOfTick(tick) : sink[i].op \notin {"Write", "Warn"}

(***************************************************************************)
(* C8: ticks are serial and in order: at most one call on the Writer is in *)
(* flight, it is the last one made and belongs to the tick Run holds (no   *)
(* later tick has been taken from the ticker), every earlier call returned *)
(* before the next one was made, and the tick timestamps of successive     *)
(* calls of the loop strictly increase.                                    *)
(***************************************************************************)
C8_SerialInOrder ==
    /\ Cardinality({i \in 1 .. Len(sink) : sink[i].ret = "pending"}) <= 1
    /\ \A i \in 1 .. Len(sink) :
          sink[i].ret = "pending" =>
              /\ i = Len(sink)
              /\ pc = "sink"
              /\ sink[i].tick = tick
    /\ \A i, j \in LoopCalls :
          i < j => /\ sink[i].t < sink[j].t
                   /\ sink[i].tick < sink[j].tick
                   /\ sink[i].done <= sink[j].at

\* a call blocked for longer than the update frequency, so that a tick was
\* dropped by the ticker, and a later tick was still written after it
C8_Witness ==
    \E i, j \in LoopCalls :
        /\ i < j
        /\ sink[i].ret = "nil"
        /\ sink[i].done - sink[i].at > d.UpdateFrequency
        /\ sink[j].t < sink[j].at

(***************************************************************************)
(* C9: the secret is never handed to the Writer.  Every text passed to     *)
(* Write, Warn or Error is the code generated for the tick, or the         *)
(* file-permission warning, which names the file and nothing else; the     *)
(* warning is the first call, made by Warn when the file's mode asks for   *)
(* it, so nothing but the codes depends on the secret's value.             *)
(***************************************************************************)
C9_SecretNotWritten ==
    \A i \in 1 .. Len(sink) :
        \/ /\ sink[i].text.kind = "otp"
           /\ sink[i].tick >= 1
           /\ sink[i].op \in {"Write", "Warn"}
           /\ sink[i].text.arg =
                 <<d.Secret, sink[i].t \div EffectivePeriod(d.TOTPOptions),
                   d.TOTPOptions.Algorithm, d.TOTPOptions.Digits>>
        \/ /\ sink[i].text.kind = "permwarn"
           /\ sink[i].text.arg = <<secFile.name>>
           /\ sink[i].op = "Warn"
           /\ i = 1
           /\ sink[i].tick = 0
           /\ secFile.perm > Oct(7,0,0)

\* a secret was read from a file open to everyone, the file was warned
\* about, and a code has been handed to the Writer
C9_Witness ==
    /\ Len(sink) >= 2
    /\ sink[1].text.kind = "permwarn"
    /\ sink[2].text.kind = "otp"
    /\ d.Secret = GoodSecret

(***************************************************************************)
(* C10, as claimed: once NewMFADevice has returned, no step of the program *)
(* changes the device.                                                     *)
(***************************************************************************)
C10_Original == [][pc # "start" => d' = d]_vars

(***************************************************************************)
(* C10, amended: once NewMFADevice has returned, main's secret resolution  *)
(* changes at most the device's secret, and no step of Run changes the     *)
(* device at all.                                                          *)
(***************************************************************************)
C10_FrozenOnceResolved ==
    [][/\ pc = "resolve" => d' = [d EXCEPT !.Secret = d'.Secret]
       /\ pc \notin {"start", "resolve"} => d' = d]_vars

\* the secret was set after construction and Run has completed two ticks
C10_Witness ==
    /\ pc = "recv"
    /\ tick = 2
    /\ d.Secret = GoodSecret
    /\ Cardinality(LoopCalls) = 2

(***************************************************************************)
(* C11: once started, Run has no stop of its own: it leaves its loop only  *)
(* by the panic of a failed generation or a failed call on the Writer.     *)
(* While the ticker has a value waiting or still fires within the time the *)
(* model lets pass, every tick is followed by another tick, which either   *)
(* fails so or makes its one call on the Writer.                           *)
(***************************************************************************)
InLoop == pc \in {"recv", "sink"}

\* ticker.C holds a value, or the ticker fires again before the clock stops
TickerDelivers == chan # <<>> \/ nextFire - now <= MaxElapsed - elapsed

LoopFailed == pc = "panic" /\ err \in {"generate", "sink"}

C11_LoopNeverStops ==
    /\ [](InLoop => [](InLoop \/ LoopFailed))
    /\ \A n \in 0 .. MaxElapsed :
          (InLoop /\ tick = n /\ TickerDelivers)
              ~> (LoopFailed \/ (tick = n + 1 /\ Cardinality(CallsOfTick(n + 1)) = 1))

\* the clock has stopped after three ticks, each with its write returned
C11_Witness ==
    /\ pc = "recv"
    /\ elapsed = MaxElapsed
    /\ tick = 3
    /\ Cardinality(LoopCalls) = 3
    /\ \A i \in LoopCalls : sink[i].ret = "nil"

(***************************************************************************)
(* C12: whatever options NewMFADevice is given, with whatever arguments,   *)
(* the device's Writer is never nil and its UpdateFrequency never zero:    *)
(* Output, UpdateFrequency, RefreshPeriod, Secret and Algorithm leave the  *)
(* device as it was when their argument is nil, zero or empty, and Digits  *)
(* alone stores its argument whatever it is.                               *)
(***************************************************************************)
\* option o was given the zero value of its argument's type
ZeroArgument(o) ==
    CASE o[1] = "Output" -> o[2] = NilWriter
      [] o[1] \in {"UpdateFrequency", "RefreshPeriod"} -> o[2] = 0
      [] o[1] \in {"Secret", "Algorithm"} -> o[2] = ""
      [] OTHER -> FALSE

C12_OptionsKeepDefaults ==
    /\ [](pc \in {"options", "constructed"} =>
             d.Writer # NilWriter /\ d.UpdateFrequency # 0)
    /\ [][(pc = "options" /\ applied < Len(optionList)) =>
             LET o == optionList[applied + 1]
             IN  /\ (o[1] # "Digits" /\ ZeroArgument(o)) => d' = d
                 /\ o[1] = "Digits" => d'.TOTPOptions.Digits = o[2]]_vars

\* Output(nil), UpdateFrequency(0) and Digits(0) have been applied: the
\* default Writer and frequency stand, the digit count is zero
C12_Witness ==
    /\ pc = "constructed"
    /\ Len(optionList) = 3
    /\ optionList[1][1] = "Output" /\ optionList[1][2] = NilWriter
    /\ optionList[2][1] = "UpdateFrequency" /\ optionList[2][2] = 0
    /\ optionList[3][1] = "Digits" /\ optionList[3][2] = 0
    /\ d.Writer = "defaultTerminal"
    /\ d.UpdateFrequency = 1
    /\ d.TOTPOptions.Digits = 0

====
